---- MODULE Spec2Model ----
(***************************************************************************)
(* Spiral-architecture arithmetic and bispectral invariants of             *)
(* Invariants-computation.ipynb (Python 2 kernel: `/` on integers is floor *)
(* division).  Pure functions are operators computed the way the notebook  *)
(* computes them; Spec applies the algebra to inputs drawn from bounded    *)
(* sets, SpecBisp runs the loop of bispectral_inv one entry per step.      *)
(***************************************************************************)
EXTENDS Integers, Sequences, FiniteSets, TLC

\* ------------------------------------------------------------------ bounds
\* Operands of the algebra have at most MaxLen decimal digits.
MaxLen == 2

\* Decimal digits an operand may be written with: 0..6 are valid spiral
\* digits, 7 passes the notebook's range test, 8 does not (9 behaves as 8).
InputDigits == 0..8

\* Moduli handed to spiral_add / spiral_mult (0 is the "no modulus" default).
Mods == {0, 7, 10}

\* ------------------------------------------------------------- arithmetic
RECURSIVE Pow(_, _)
Pow(b, e) == IF e = 0 THEN 1 ELSE b * Pow(b, e - 1)

RECURSIVE IntvecLoop(_, _)
IntvecLoop(vec, a) ==
    IF a = 0 THEN vec
    ELSE LET digit == a % 10
         IN  IntvecLoop(Append(vec, digit), (a - digit) \div 10)

\* int2intvec: the decimal digits of a, least significant first.
int2intvec(a) ==
    LET digit == a % 10
    IN  IntvecLoop(<<digit>>, (a - digit) \div 10)

\* ndarray.resize(n): the array extended in place with zeros.
Resize(vec, n) == [p \in 1..n |-> IF p <= Len(vec) THEN vec[p] ELSE 0]

ALPHABET7 == <<"0", "1", "2", "3", "4", "5", "6">>
ALPHABET10 == <<"0", "1", "2", "3", "4", "5", "6", "7", "8", "9">>

\* int(c) for a one-character decimal string c.
CharValue(c) == (CHOOSE p \in 1..Len(ALPHABET10) : ALPHABET10[p] = c) - 1

Reverse(s) == [p \in 1..Len(s) |-> s[Len(s) + 1 - p]]

RECURSIVE ParseInt(_, _, _)
\* int(''.join(arr)): the characters read left to right as a decimal literal.
ParseInt(arr, p, acc) ==
    IF p > Len(arr) THEN acc
    ELSE ParseInt(arr, p + 1, acc * 10 + CharValue(arr[p]))

RECURSIVE EncodeLoop(_, _, _)
EncodeLoop(num, alphabet, arr) ==
    IF num = 0 THEN arr
    ELSE LET base == Len(alphabet)
             rem == num % base
         IN  EncodeLoop(num \div base, alphabet, Append(arr, alphabet[rem + 1]))

\* base_encode without arr.reverse(): the digits stay least significant first.
EncodeDigitsUnreversed(num, alphabet) == EncodeLoop(num, alphabet, <<>>)

\* The while loop and arr.reverse() of base_encode.
EncodeDigits(num, alphabet) == Reverse(EncodeLoop(num, alphabet, <<>>))

base_encode(num, alphabet) ==
    IF num = 0 THEN 0
    ELSE ParseInt(EncodeDigits(num, alphabet), 1, 0)

RECURSIVE Base7Sum(_, _, _)
Base7Sum(arr, i, num) ==
    IF i = Len(arr) THEN num
    ELSE Base7Sum(arr, i + 1, num + arr[i + 1] * Pow(7, i))

\* base7to10: no digit of num is tested; every digit is a coefficient.
base7to10(num) == Base7Sum(int2intvec(num), 0, 0)

base10to7(num) == base_encode(num, ALPHABET7)

\* ------------------------------------------------------------ the tables
addition_table ==
    << <<0, 1, 2, 3, 4, 5, 6>>,
       <<1, 63, 15, 2, 0, 6, 64>>,
       <<2, 15, 14, 26, 3, 0, 1>>,
       <<3, 2, 26, 25, 31, 4, 0>>,
       <<4, 0, 3, 31, 36, 42, 5>>,
       <<5, 6, 0, 4, 42, 41, 53>>,
       <<6, 64, 1, 0, 5, 53, 52>> >>

multiplication_table ==
    << <<0, 0, 0, 0, 0, 0, 0>>,
       <<0, 1, 2, 3, 4, 5, 6>>,
       <<0, 2, 3, 4, 5, 6, 1>>,
       <<0, 3, 4, 5, 6, 1, 2>>,
       <<0, 4, 5, 6, 1, 2, 3>>,
       <<0, 5, 6, 1, 2, 3, 4>>,
       <<0, 6, 1, 2, 3, 4, 5>> >>

\* -------------------------------------------------------------- outcomes
\* The outcome of a call: err is "ok" (val returned), "InvalidAddress"
\* ("Invalid spiral address!" printed, None returned), or the Python
\* exception raised.  dig is dig_a as the call leaves it; lookups counts the
\* table lookups attempted; vals collects every value stored into a digit
\* array or passed to a nested spiral_add; top2 records that the lookup at a
\* most-significant position of a multi-digit addition gave a two-digit token;
\* two records that some table lookup gave a two-digit token.
NoLog == [lookups |-> 0, vals |-> {}, top2 |-> FALSE, two |-> FALSE]

Join(l1, l2) ==
    [lookups |-> l1.lookups + l2.lookups,
     vals |-> l1.vals \cup l2.vals,
     top2 |-> l1.top2 \/ l2.top2,
     two |-> l1.two \/ l2.two]

Outcome(e, v, d, l) == [err |-> e, val |-> v, dig |-> d, log |-> l]

\* What Python does with the result of a nested call that did not return a
\* number: an exception goes on up; None in arithmetic raises TypeError.
Raised(r) == IF r.err = "InvalidAddress" THEN "TypeError" ELSE r.err

\* The range test of spiral_add and spiral_mult on the two digit arrays.
DigitsRejected(dig_a, dig_b) ==
    \/ \E p \in 1..Len(dig_a) : dig_a[p] < 0 \/ dig_a[p] > 7
    \/ \E p \in 1..Len(dig_b) : dig_b[p] < 0 \/ dig_b[p] > 7

\* table[x][y] on a 7x7 list of lists: IndexError outside 0..6.
Lookup(table, x, y, dig_a) ==
    IF x \in 0..6 /\ y \in 0..6
    THEN Outcome("ok", table[x + 1][y + 1], dig_a,
                 [NoLog EXCEPT !.lookups = 1, !.two = table[x + 1][y + 1] > 9])
    ELSE Outcome("IndexError", 0, dig_a, [NoLog EXCEPT !.lookups = 1])

\* `if mod != 0: return res % mod` at the end of spiral_add and spiral_mult.
Reduce(r, mod) ==
    IF r.err = "ok" /\ mod # 0 THEN [r EXCEPT !.val = r.val % mod] ELSE r

RECURSIVE spiral_add(_, _, _)
RECURSIVE AddLoop(_, _, _, _, _)

\* AddCarry without `dig_a[i+1] = str(carry_on)`: the carry is computed and
\* lost.
AddCarryLost(dig_a, dig_b, i, res, log, carry_on) ==
    IF carry_on.err # "ok"
    THEN Outcome(Raised(carry_on), 0, dig_a, Join(log, carry_on.log))
    ELSE AddLoop(dig_a, dig_b, i + 1, res,
                 [Join(log, carry_on.log) EXCEPT !.vals = @ \cup {carry_on.val}])

\* `carry_on = spiral_add(dig_a[i+1], carry); dig_a[i+1] = str(carry_on)`
\* has run with outcome carry_on: the loop goes on from position i + 1.
AddCarry(dig_a, dig_b, i, res, log, carry_on) ==
    IF carry_on.err # "ok"
    THEN Outcome(Raised(carry_on), 0, dig_a, Join(log, carry_on.log))
    ELSE AddLoop([dig_a EXCEPT ![i + 2] = carry_on.val], dig_b, i + 1, res,
                 [Join(log, carry_on.log) EXCEPT !.vals = @ \cup {carry_on.val}])

\* AddDigit taking only the ones digit of temp at the last position too:
\* a carry out of the most-significant position is dropped.
AddDigitDropsCarry(dig_a, dig_b, i, res, log, temp) ==
    IF temp.err # "ok"
    THEN Outcome(Raised(temp), 0, dig_a, Join(log, temp.log))
    ELSE IF i = Len(dig_a) - 1
    THEN AddLoop(dig_a, dig_b, i + 1, res + (temp.val % 10) * Pow(10, i),
                 [Join(log, temp.log) EXCEPT !.top2 = (@ \/ temp.val > 9)])
    ELSE AddCarry(dig_a, dig_b, i, res + (temp.val % 10) * Pow(10, i),
                  [Join(log, temp.log) EXCEPT
                     !.vals = @ \cup {dig_a[i + 2], (temp.val - (temp.val % 10)) \div 10}],
                  spiral_add(dig_a[i + 2], (temp.val - (temp.val % 10)) \div 10, 0))

\* spiral_add(dig_a[i], dig_b[i]) has run with outcome temp.  At the last
\* position the whole of temp is added at 10^i; before it the ones digit of
\* temp is added and its tens are carried into dig_a[i+1].
AddDigit(dig_a, dig_b, i, res, log, temp) ==
    IF temp.err # "ok"
    THEN Outcome(Raised(temp), 0, dig_a, Join(log, temp.log))
    ELSE IF i = Len(dig_a) - 1
    THEN AddLoop(dig_a, dig_b, i + 1, res + temp.val * Pow(10, i),
                 [Join(log, temp.log) EXCEPT !.top2 = (@ \/ temp.val > 9)])
    ELSE AddCarry(dig_a, dig_b, i, res + (temp.val % 10) * Pow(10, i),
                  [Join(log, temp.log) EXCEPT
                     !.vals = @ \cup {dig_a[i + 2], (temp.val - (temp.val % 10)) \div 10}],
                  spiral_add(dig_a[i + 2], (temp.val - (temp.val % 10)) \div 10, 0))

\* AddLoop over range(len(dig_a) - 1): the most-significant position is
\* never processed.
AddLoopShort(dig_a, dig_b, i, res, log) ==
    IF i >= Len(dig_a) - 1 THEN Outcome("ok", res, dig_a, log)
    ELSE AddDigit(dig_a, dig_b, i, res,
                  [log EXCEPT !.vals = @ \cup {dig_a[i + 1], dig_b[i + 1]}],
                  spiral_add(dig_a[i + 1], dig_b[i + 1], 0))

\* The `for i in range(len(dig_a))` loop of spiral_add, from position i on.
AddLoop(dig_a, dig_b, i, res, log) ==
    IF i = Len(dig_a) THEN Outcome("ok", res, dig_a, log)
    ELSE AddDigit(dig_a, dig_b, i, res,
                  [log EXCEPT !.vals = @ \cup {dig_a[i + 1], dig_b[i + 1]}],
                  spiral_add(dig_a[i + 1], dig_b[i + 1], 0))

\* AddSingle as the ordinary sum of the two digits, no table.
AddSinglePlain(a, b, mod, dig_a) ==
    Outcome("ok", a + b, dig_a, [NoLog EXCEPT !.lookups = 1, !.two = a + b > 9])

\* The single-digit return of spiral_add: the table entry, mod not applied.
AddSingle(a, b, mod, dig_a) == Lookup(addition_table, a, b, dig_a)

spiral_add(a, b, mod) ==
    LET dig_a == int2intvec(a)
        dig_b == int2intvec(b)
        n == IF Len(dig_a) < Len(dig_b) THEN Len(dig_b) ELSE Len(dig_a)
    IN
    IF DigitsRejected(dig_a, dig_b)
    THEN Outcome("InvalidAddress", 0, dig_a, NoLog)
    ELSE IF Len(dig_a) = 1 /\ Len(dig_b) = 1
    THEN AddSingle(a, b, mod, dig_a)
    ELSE Reduce(AddLoop(Resize(dig_a, n), Resize(dig_b, n), 0, 0, NoLog), mod)

RECURSIVE MultLoop(_, _, _, _, _)

\* `sa_mult = spiral_add(sa_mult, temp)` has run with outcome sum.
MultAdd(dig_a, dig_b, step, log, sum) ==
    IF sum.err = "ok"
    THEN MultLoop(dig_a, dig_b, step + 1, sum.val, Join(log, sum.log))
    ELSE IF sum.err = "InvalidAddress" /\ step + 1 = Len(dig_a) * Len(dig_b)
    THEN Outcome("InvalidAddress", 0, dig_a, Join(log, sum.log))
    ELSE Outcome(Raised(sum), 0, dig_a, Join(log, sum.log))

\* MultCell without the factor 10**(i+j): every partial product is added at
\* the units.
MultCellUnshifted(dig_a, dig_b, step, sa_mult, log, cell) ==
    IF cell.err # "ok" THEN Outcome(cell.err, 0, dig_a, Join(log, cell.log))
    ELSE MultAdd(dig_a, dig_b, step,
                 [Join(log, cell.log) EXCEPT !.vals = @ \cup {sa_mult, cell.val}],
                 spiral_add(sa_mult, cell.val, 0))

\* MultCell with the factor 10**i in place of 10**(i+j): the partial
\* products of one digit of b all land on the same position.
MultCellRowShift(dig_a, dig_b, step, sa_mult, log, cell) ==
    IF cell.err # "ok" THEN Outcome(cell.err, 0, dig_a, Join(log, cell.log))
    ELSE MultAdd(dig_a, dig_b, step,
                 [Join(log, cell.log) EXCEPT
                    !.vals = @ \cup {sa_mult, cell.val * Pow(10, step \div Len(dig_a))}],
                 spiral_add(sa_mult, cell.val * Pow(10, step \div Len(dig_a)), 0))

\* The table lookup of one (i, j) has given cell.
MultCell(dig_a, dig_b, step, sa_mult, log, cell) ==
    IF cell.err # "ok" THEN Outcome(cell.err, 0, dig_a, Join(log, cell.log))
    ELSE MultAdd(dig_a, dig_b, step,
                 [Join(log, cell.log) EXCEPT
                    !.vals = @ \cup {sa_mult, cell.val * Pow(10, (step \div Len(dig_a)) + (step % Len(dig_a)))}],
                 spiral_add(sa_mult,
                            cell.val * Pow(10, (step \div Len(dig_a)) + (step % Len(dig_a))),
                            0))

\* The double loop of spiral_mult: step = i * len(dig_a) + j.
MultLoop(dig_a, dig_b, step, sa_mult, log) ==
    IF step = Len(dig_a) * Len(dig_b) THEN Outcome("ok", sa_mult, dig_a, log)
    ELSE MultCell(dig_a, dig_b, step, sa_mult, log,
                  Lookup(multiplication_table,
                         dig_a[(step % Len(dig_a)) + 1],
                         dig_b[(step \div Len(dig_a)) + 1], dig_a))

spiral_mult(a, b, mod) ==
    LET dig_a == int2intvec(a)
        dig_b == int2intvec(b)
    IN
    IF DigitsRejected(dig_a, dig_b)
    THEN Outcome("InvalidAddress", 0, dig_a, NoLog)
    ELSE Reduce(MultLoop(dig_a, dig_b, 0, 0, NoLog), mod)

\* ------------------------------------------------- the algebra, applied
VARIABLES a, b, mod, op, ret

algebra == <<a, b, mod, op, ret>>

RECURSIVE Numbers(_)
\* The integers written with at most len decimal digits out of InputDigits.
Numbers(len) ==
    IF len = 0 THEN {0}
    ELSE {d + 10 * m : d \in InputDigits, m \in Numbers(len - 1)}

Inputs == Numbers(MaxLen)

RECURSIVE IsSpiralAddress(_)
\* Every decimal digit of the non-negative integer n is in [0,6].
IsSpiralAddress(n) ==
    IF n < 10 THEN n <= 6
    ELSE (n % 10) <= 6 /\ IsSpiralAddress(n \div 10)

RECURSIVE NumDigits(_)
NumDigits(n) == IF n < 10 THEN 1 ELSE 1 + NumDigits(n \div 10)

NoReturn == Outcome("none", 0, <<>>, NoLog)

AlgebraInit ==
    /\ a \in Inputs
    /\ b = 0
    /\ mod = 0
    /\ op = "none"
    /\ ret = NoReturn

\* spiral_add(a, b, mod) is called.
Add ==
    /\ op = "none"
    /\ \E y \in Inputs, m \in Mods :
         /\ b' = y
         /\ mod' = m
         /\ ret' = spiral_add(a, y, m)
    /\ op' = "add"
    /\ UNCHANGED a

\* spiral_mult(a, b, mod) is called.
Mult ==
    /\ op = "none"
    /\ \E y \in Inputs, m \in Mods :
         /\ b' = y
         /\ mod' = m
         /\ ret' = spiral_mult(a, y, m)
    /\ op' = "mult"
    /\ UNCHANGED a

\* base7to10(a) is called.
ToPositional ==
    /\ op = "none"
    /\ op' = "base7to10"
    /\ ret' = Outcome("ok", base7to10(a), <<>>, NoLog)
    /\ UNCHANGED <<a, b, mod>>

\* base10to7 is called on what base7to10(a) returned.
ToSpiral ==
    /\ op = "base7to10"
    /\ ret.err = "ok"
    /\ op' = "base10to7"
    /\ ret' = Outcome("ok", base10to7(ret.val), <<>>, NoLog)
    /\ UNCHANGED <<a, b, mod>>

AlgebraNext == Add \/ Mult \/ ToPositional \/ ToSpiral

\* --------------------------------------------------------------- geometry
\* Complex numbers with integer parts, <<re, im>>.
Zero == <<0, 0>>
CAdd(x, y) == <<x[1] + y[1], x[2] + y[2]>>
CMul(x, y) == <<x[1] * y[1] - x[2] * y[2], x[1] * y[2] + x[2] * y[1]>>
CConj(x) == <<x[1], 0 - x[2]>>

\* The centered hyperpel: 56 (row, column) offsets.
hyperpel ==
    << <<-1, 4>>, <<0, 4>>, <<1, 4>>, <<2, 4>>, <<3, 4>>,
       <<-2, 3>>, <<-1, 3>>, <<0, 3>>, <<1, 3>>, <<2, 3>>, <<3, 3>>, <<4, 3>>,
       <<-2, 2>>, <<-1, 2>>, <<0, 2>>, <<1, 2>>, <<2, 2>>, <<3, 2>>, <<4, 2>>,
       <<-3, 1>>, <<-2, 1>>, <<-1, 1>>, <<0, 1>>, <<1, 1>>, <<2, 1>>, <<3, 1>>,
       <<4, 1>>, <<5, 1>>,
       <<-3, 0>>, <<-2, 0>>, <<-1, 0>>, <<0, 0>>, <<1, 0>>, <<2, 0>>, <<3, 0>>,
       <<4, 0>>, <<5, 0>>,
       <<-2, -1>>, <<-1, -1>>, <<0, -1>>, <<1, -1>>, <<2, -1>>, <<3, -1>>,
       <<4, -1>>,
       <<-2, -2>>, <<-1, -2>>, <<0, -2>>, <<1, -2>>, <<2, -2>>, <<3, -2>>,
       <<4, -2>>,
       <<-1, -3>>, <<0, -3>>, <<1, -3>>, <<2, -3>>, <<3, -3>> >>

hyperpel_sa == [p \in 1..Len(hyperpel) |-> <<hyperpel[p][1] - 1, hyperpel[p][2] - 1>>]

RECURSIVE sa2hex_aux(_, _)
\* sa2hex_aux with the centres of addresses 1 and 4 seven columns from the
\* origin instead of eight.
sa2hex_aux_near(d, zeros) ==
    IF zeros = 0
    THEN CASE d = 0 -> <<0, 0>>
           [] d = 1 -> <<0, 7>>
           [] d = 2 -> <<-7, 4>>
           [] d = 3 -> <<-7, -4>>
           [] d = 4 -> <<0, -7>>
           [] d = 5 -> <<7, -4>>
           [] d = 6 -> <<7, 4>>
    ELSE LET p == sa2hex_aux(d, zeros - 1)
             q == sa2hex_aux((d % 6) + 1, zeros - 1)
         IN  <<p[1] + 2 * q[1], p[2] + 2 * q[2]>>

\* The (row, column) of the centre of the hyperpel of address a * 10^zeros.
sa2hex_aux(d, zeros) ==
    IF zeros = 0
    THEN CASE d = 0 -> <<0, 0>>
           [] d = 1 -> <<0, 8>>
           [] d = 2 -> <<-7, 4>>
           [] d = 3 -> <<-7, -4>>
           [] d = 4 -> <<0, -8>>
           [] d = 5 -> <<7, -4>>
           [] d = 6 -> <<7, 4>>
    ELSE LET p == sa2hex_aux(d, zeros - 1)
             q == sa2hex_aux((d % 6) + 1, zeros - 1)
         IN  <<p[1] + 2 * q[1], p[2] + 2 * q[2]>>

RECURSIVE Sa2hexLoop(_, _, _)
\* Sa2hexLoop calling sa2hex_aux(digit, 0) at every position: the depth of
\* the digit is ignored.
Sa2hexLoopFlat(digits, i, hex_address) ==
    IF i = Len(digits) THEN [err |-> "ok", hex |-> hex_address]
    ELSE IF digits[i + 1] < 0 \/ digits[i + 1] > 6
    THEN [err |-> "InvalidAddress", hex |-> <<0, 0>>]
    ELSE IF digits[i + 1] # 0
    THEN LET o == sa2hex_aux(digits[i + 1], 0)
         IN  Sa2hexLoop(digits, i + 1, <<hex_address[1] + o[1], hex_address[2] + o[2]>>)
    ELSE Sa2hexLoop(digits, i + 1, hex_address)

\* The loop of sa2hex over str(spiral_address)[::-1]; None on a digit > 6.
Sa2hexLoop(digits, i, hex_address) ==
    IF i = Len(digits) THEN [err |-> "ok", hex |-> hex_address]
    ELSE IF digits[i + 1] < 0 \/ digits[i + 1] > 6
    THEN [err |-> "InvalidAddress", hex |-> <<0, 0>>]
    ELSE IF digits[i + 1] # 0
    THEN LET o == sa2hex_aux(digits[i + 1], i)
         IN  Sa2hexLoop(digits, i + 1, <<hex_address[1] + o[1], hex_address[2] + o[2]>>)
    ELSE Sa2hexLoop(digits, i + 1, hex_address)

sa2hex(spiral_address) == Sa2hexLoop(int2intvec(spiral_address), 0, <<0, 0>>)

\* oversampled_image[row, col] on a two-dimensional array: an index below
\* zero counts from the end, an index outside [-n, n) raises IndexError.
InRange(n, x) == (0 - n) <= x /\ x < n
Wrap(n, x) == IF x < 0 THEN x + n ELSE x

Index2(image, row, col) ==
    LET rows == Len(image)
        cols == Len(image[1])
    IN  IF InRange(rows, row) /\ InRange(cols, col)
        THEN [err |-> "ok", val |-> image[Wrap(rows, row) + 1][Wrap(cols, col) + 1]]
        ELSE [err |-> "IndexError", val |-> Zero]

\* The cells sa_value reads for an address whose centre is hex.
Footprint(hex) ==
    [p \in 1..Len(hyperpel_sa) |-> <<hyperpel_sa[p][1] + hex[1], hyperpel_sa[p][2] + hex[2]>>]

\* A cell outside the index range [0, rows) x [0, cols) of the image.
Outside(image, cell) ==
    \/ cell[1] < 0 \/ cell[1] >= Len(image)
    \/ cell[2] < 0 \/ cell[2] >= Len(image[1])

RECURSIVE SumCells(_, _, _, _)
\* The sum of the cells hp[lo..hi] (1-based), halving the range.
SumCells(image, hp, lo, hi) ==
    IF lo = hi THEN Index2(image, hp[lo][1], hp[lo][2]).val
    ELSE LET mid == (lo + hi) \div 2
         IN  CAdd(SumCells(image, hp, lo, mid), SumCells(image, hp, mid + 1, hi))

\* `for i in range(56): val += oversampled_image[hp[i,0], hp[i,1]]`.
\* The loop stops at the first cell whose index raises IndexError; val is
\* the sum of the 56 cells otherwise (sa_value returns val/56).  wrapped: a
\* cell outside the index range was read without an exception.
SaLoop(image, hp) ==
    LET bad == {p \in 1..56 : Index2(image, hp[p][1], hp[p][2]).err # "ok"}
        stop == IF bad = {} THEN 57 ELSE CHOOSE p \in bad : \A q \in bad : p <= q
        wrap == \E p \in 1..(stop - 1) : Outside(image, hp[p])
    IN  IF bad = {}
        THEN [err |-> "ok", val |-> SumCells(image, hp, 1, 56), wrapped |-> wrap]
        ELSE [err |-> "IndexError", val |-> Zero, wrapped |-> wrap]

\* `hp = hyperpel_sa + sa2hex(spiral_address)` and the loop over it.
SaValueAt(oversampled_image, centre) ==
    IF centre.err # "ok"
    THEN [err |-> "TypeError", val |-> Zero, wrapped |-> FALSE]
    ELSE SaLoop(oversampled_image, Footprint(centre.hex))

\* sa_value times 56: the division by 56 is left symbolic.
sa_value(oversampled_image, spiral_address) ==
    SaValueAt(oversampled_image, sa2hex(spiral_address))

\* oversampling: every cell of image becomes a factor x factor block.
oversampling(image, factor) ==
    [row \in 1..(factor * Len(image)) |->
       [col \in 1..(factor * Len(image[1])) |->
          image[((row - 1) \div factor) + 1][((col - 1) \div factor) + 1]]]

\* ----------------------------------------------------- invariant engine
RECURSIVE OmegaLoop(_, _, _, _, _)

\* sa_value(fft_oversampled, mult) for what spiral_mult returned.
SaValueOf(fft_oversampled, mult) ==
    IF mult.err # "ok"
    THEN [err |-> Raised(mult), val |-> Zero, wrapped |-> FALSE]
    ELSE sa_value(fft_oversampled, mult.val)

\* `omegaf[i-1] = v` for the outcome v of sa_value.
OmegaStore(fft_oversampled, sa, i, omega, wrapped, v) ==
    IF v.err # "ok"
    THEN [err |-> v.err, val |-> omega, wrapped |-> wrapped \/ v.wrapped]
    ELSE OmegaLoop(fft_oversampled, sa, i + 1, Append(omega, v.val),
                   wrapped \/ v.wrapped)

\* `for i in range(1,7): omegaf[i-1] = sa_value(fft, spiral_mult(sa, i))`.
OmegaLoop(fft_oversampled, sa, i, omega, wrapped) ==
    IF i = 7 THEN [err |-> "ok", val |-> omega, wrapped |-> wrapped]
    ELSE OmegaStore(fft_oversampled, sa, i, omega, wrapped,
                    SaValueOf(fft_oversampled, spiral_mult(sa, i, 0)))

\* The six components of omegaf, each times 56.
omegaf(fft_oversampled, sa) == OmegaLoop(fft_oversampled, sa, 1, <<>>, FALSE)

RECURSIVE Vdot(_, _, _, _)
\* np.vdot(x, y): the sum of conj(x[k]) * y[k].
Vdot(x, y, k, acc) ==
    IF k > Len(x) THEN acc
    ELSE Vdot(x, y, k + 1, CAdd(acc, CMul(CConj(x[k]), y[k])))

\* np.vdot(omega1*omega2, omega3), or the exception the first failing
\* omegaf raised.
Combine(omega1, omega2, omega3) ==
    IF omega1.err # "ok"
    THEN [err |-> omega1.err, val |-> Zero, wrapped |-> omega1.wrapped]
    ELSE IF omega2.err # "ok"
    THEN [err |-> omega2.err, val |-> Zero,
          wrapped |-> omega1.wrapped \/ omega2.wrapped]
    ELSE IF omega3.err # "ok"
    THEN [err |-> omega3.err, val |-> Zero,
          wrapped |-> omega1.wrapped \/ omega2.wrapped \/ omega3.wrapped]
    ELSE [err |-> "ok",
          val |-> Vdot([p \in 1..6 |-> CMul(omega1.val[p], omega2.val[p])],
                       omega3.val, 1, Zero),
          wrapped |-> omega1.wrapped \/ omega2.wrapped \/ omega3.wrapped]

\* invariant(fft, sa1, sa2, sa3) times 56^3.
invariant(fft_oversampled, sa1, sa2, sa3) ==
    Combine(omegaf(fft_oversampled, sa1),
            omegaf(fft_oversampled, sa2),
            omegaf(fft_oversampled, sa3))

\* The addresses bispectral_inv runs over.
indexes == <<0, 1, 10, 11, 12, 13, 14, 15, 16>>

\* sa3 of the plain bispectrum.
Sa3Plain(sa1, sa2) == base10to7(base7to10(sa1) + base7to10(sa2))

\* sa3 of the rotational bispectrum: sa2 rotated by r, then added to sa1.
Sa3Rot(sa1, sa2, r) ==
    base10to7(base7to10(sa1) + base7to10(spiral_mult(sa2, r, 0).val))

\* np.zeros(n, dtype): the vector bispectral_inv starts from.
Zeros(n) == [p \in 1..n |-> Zero]

\* ------------------------------------------------------ the spectra used
\* The default oversampling factor.
Factor == 7

\* A grid that is 1 on the 56 cells sa_value reads for address 0 and 0
\* everywhere else (the spectrum of a constant image).
SpikeGrid(rows, cols) ==
    LET dc == {<<Wrap(rows, Footprint(<<0, 0>>)[p][1]), Wrap(cols, Footprint(<<0, 0>>)[p][2])>> :
                 p \in 1..Len(hyperpel_sa)}
    IN  [row \in 1..rows |->
          [col \in 1..cols |-> IF <<row - 1, col - 1>> \in dc THEN <<1, 0>> ELSE Zero]]

\* An n x n transform with a different complex value in neighbouring cells.
TestImage(n) ==
    [row \in 1..n |-> [col \in 1..n |-> <<(2 * row + col) % 4, (row + 3 * col) % 3>>]]

\* (rows, columns) of the spike grids, and sides of the transforms oversampled.
SpikeSizes == {<<33, 32>>, <<70, 70>>}
ImageSizes == {3, 10}

Spectra ==
    {SpikeGrid(s[1], s[2]) : s \in SpikeSizes}
      \cup {oversampling(TestImage(n), Factor) : n \in ImageSizes}

\* ------------------------------------------------------- bispectral_inv
VARIABLES fft_oversampled, rotational, pc, i, k, r, count, bispectrum,
          writes, wrapped

\* pc: "idle" (not called), "loop", "returned", or the exception raised.
\* writes: the indices of bispectrum assigned so far, in order.
\* wrapped: some cell outside [0,rows) x [0,cols) was read without exception.
engine == <<fft_oversampled, rotational, pc, i, k, r, count, bispectrum,
            writes, wrapped>>

vars == <<a, b, mod, op, ret, fft_oversampled, rotational, pc, i, k, r, count,
          bispectrum, writes, wrapped>>

EngineIdle ==
    /\ fft_oversampled = <<>>
    /\ rotational = FALSE
    /\ pc = "idle"
    /\ i = 0 /\ k = 0 /\ r = 0 /\ count = 0
    /\ bispectrum = <<>>
    /\ writes = <<>>
    /\ wrapped = FALSE

AlgebraIdle ==
    /\ a = 0 /\ b = 0 /\ mod = 0
    /\ op = "idle"
    /\ ret = NoReturn

\* bispectral_inv is entered: the vector allocated, count = 0.
EngineInit ==
    /\ fft_oversampled \in Spectra
    /\ rotational \in BOOLEAN
    /\ pc = "loop"
    /\ i = 0 /\ k = 0 /\ r = 0 /\ count = 0
    /\ bispectrum = Zeros(IF rotational THEN 9 * 9 * 6 ELSE 9 * 9)
    /\ writes = <<>>
    /\ wrapped = FALSE

\* Emit without `count += 1`: every entry is written to the same slot.
EmitKeepsCount(inv) ==
    /\ wrapped' = (wrapped \/ inv.wrapped)
    /\ IF inv.err = "ok"
       THEN /\ bispectrum' = [bispectrum EXCEPT ![count + 1] = inv.val]
            /\ writes' = Append(writes, count)
            /\ count' = count
            /\ pc' = pc
       ELSE /\ pc' = inv.err
            /\ UNCHANGED <<bispectrum, writes, count>>

\* bispectrum[count] = inv; count += 1 -- or the exception inv ended in.
Emit(inv) ==
    /\ wrapped' = (wrapped \/ inv.wrapped)
    /\ IF inv.err = "ok"
       THEN /\ bispectrum' = [bispectrum EXCEPT ![count + 1] = inv.val]
            /\ writes' = Append(writes, count)
            /\ count' = count + 1
            /\ pc' = pc
       ELSE /\ pc' = inv.err
            /\ UNCHANGED <<bispectrum, writes, count>>

\* One pass of the body of `for k` with rotational == False.
PlainStep ==
    /\ pc = "loop" /\ ~rotational /\ i < 9
    /\ LET sa1 == indexes[i + 1]
           sa2 == indexes[k + 1]
           sa3 == Sa3Plain(sa1, sa2)
       IN  Emit(invariant(fft_oversampled, sa1, sa2, sa3))
    /\ IF pc' = "loop"
       THEN /\ k' = (k + 1) % 9
            /\ i' = IF k = 8 THEN i + 1 ELSE i
       ELSE UNCHANGED <<i, k>>
    /\ UNCHANGED <<r, fft_oversampled, rotational, algebra>>

\* One pass of the body of `for r` with rotational == True.
RotStep ==
    /\ pc = "loop" /\ rotational /\ i < 9
    /\ LET sa1 == indexes[i + 1]
           sa2 == indexes[k + 1]
           sa3 == Sa3Rot(sa1, sa2, r)
       IN  Emit(invariant(fft_oversampled, sa1, sa2, sa3))
    /\ IF pc' = "loop"
       THEN /\ r' = (r + 1) % 6
            /\ k' = IF r = 5 THEN (k + 1) % 9 ELSE k
            /\ i' = IF r = 5 /\ k = 8 THEN i + 1 ELSE i
       ELSE UNCHANGED <<i, k, r>>
    /\ UNCHANGED <<fft_oversampled, rotational, algebra>>

\* `return bispectrum` once the loops are exhausted.
Return ==
    /\ pc = "loop" /\ i = 9
    /\ pc' = "returned"
    /\ UNCHANGED <<fft_oversampled, rotational, i, k, r, count, bispectrum,
                   writes, wrapped, algebra>>

\* ------------------------------------------- the geometry, applied
\* What a call of sa2hex gives back: the centre, or None after the message.
Centre(h) == Outcome(h.err, h.hex, <<>>, NoLog)

\* sa2hex(a) is called.
ToOffset ==
    /\ op = "none"
    /\ op' = "sa2hex"
    /\ ret' = Centre(sa2hex(a))
    /\ UNCHANGED <<a, b, mod>>

\* sa2hex is called on what spiral_add(a, b, mod) returned.
SumToOffset ==
    /\ op = "add"
    /\ ret.err = "ok"
    /\ op' = "add_sa2hex"
    /\ ret' = Centre(sa2hex(ret.val))
    /\ UNCHANGED <<a, b, mod>>

\* `hp = hyperpel_sa + sa2hex(spiral_address)`: the cells sa_value indexes
\* the image with, in loop order; None + array raises TypeError.
Cells(h) ==
    IF h.err # "ok" THEN Outcome("TypeError", <<>>, <<>>, NoLog)
    ELSE Outcome("ok", Footprint(h.hex), <<>>, NoLog)

\* The two outcomes of sa_value for a and for b, as one outcome.
BothCells(ca, cb) ==
    IF ca.err # "ok" THEN ca
    ELSE IF cb.err # "ok" THEN cb
    ELSE Outcome("ok", <<ca.val, cb.val>>, <<>>, NoLog)

\* sa_value is called for address a and for address b; ret.val holds the
\* cells each call indexes the image with.
Sample ==
    /\ op = "none"
    /\ \E y \in Inputs :
         /\ b' = y
         /\ ret' = BothCells(Cells(sa2hex(a)), Cells(sa2hex(y)))
    /\ op' = "sa_value"
    /\ UNCHANGED <<a, mod>>

\* ------------------------------------------------------- specifications
Init == AlgebraInit /\ EngineIdle

Next ==
    \/ Add /\ UNCHANGED engine
    \/ Mult /\ UNCHANGED engine
    \/ ToPositional /\ UNCHANGED engine
    \/ ToSpiral /\ UNCHANGED engine
    \/ ToOffset /\ UNCHANGED engine
    \/ SumToOffset /\ UNCHANGED engine
    \/ Sample /\ UNCHANGED engine

Spec == Init /\ [][Next]_vars

InitBisp == EngineInit /\ AlgebraIdle

NextBisp == PlainStep \/ RotStep \/ Return

SpecBisp == InitBisp /\ [][NextBisp]_vars

\* ----------------------------------------------------------- properties
Max(x, y) == IF x < y THEN y ELSE x

\* The decimal digit of n at position p (0 = least significant).
DigitAt(n, p) == (n \div Pow(10, p)) % 10

\* C1: round trip -- for every spiral address a (all digits in [0,6]),
\* base10to7(base7to10(a)) = a; in particular 0 goes to 0 and back to 0.
C1_RoundTrip ==
    (op = "base10to7" /\ IsSpiralAddress(a)) => (ret.err = "ok" /\ ret.val = a)

C1_Witness ==
    op = "base10to7" /\ IsSpiralAddress(a) /\ a >= 10 /\ ret.val = a

\* C2: additive identity -- for every valid a, spiral_add(a, 0) returns a,
\* and the digit array dig_a still holds the digits of a after the loop.
C2_AddZero ==
    (op = "add" /\ b = 0 /\ mod = 0 /\ IsSpiralAddress(a)) =>
        /\ ret.err = "ok"
        /\ ret.val = a
        /\ Len(ret.dig) = NumDigits(a)
        /\ \A p \in 1..Len(ret.dig) : ret.dig[p] = DigitAt(a, p - 1)

C2_Witness ==
    /\ op = "add" /\ b = 0 /\ mod = 0
    /\ IsSpiralAddress(a) /\ a >= 10
    /\ ret.val = a

\* C3: for every valid a, spiral_mult(a, 1) returns a and spiral_mult(a, 0)
\* returns 0.
C3_MultOneZero ==
    (op = "mult" /\ mod = 0 /\ IsSpiralAddress(a)) =>
        /\ b = 1 => (ret.err = "ok" /\ ret.val = a)
        /\ b = 0 => (ret.err = "ok" /\ ret.val = 0)

C3_Witness ==
    /\ op = "mult" /\ b = 1 /\ mod = 0
    /\ IsSpiralAddress(a) /\ a >= 10
    /\ ret.val = a

\* C4 (as claimed): whenever a digit of a or of b is outside [0,6],
\* spiral_add and spiral_mult end in InvalidAddress before any table lookup.
C4_InvalidRejected ==
    (op \in {"add", "mult"} /\ ~(IsSpiralAddress(a) /\ IsSpiralAddress(b))) =>
        (ret.err = "InvalidAddress" /\ ret.log.lookups = 0)

\* C5 (as claimed): for valid a, b, spiral_add(a, b, m) with m # 0 returns
\* spiral_add(a, b) mod m, single-digit operands included; with m = 0 it
\* returns spiral_add(a, b).
C5_AddModulus ==
    (op = "add" /\ IsSpiralAddress(a) /\ IsSpiralAddress(b)) =>
        /\ ret.err = "ok"
        /\ ret.val = IF mod # 0 THEN spiral_add(a, b, 0).val % mod
                     ELSE spiral_add(a, b, 0).val

\* C7 (as claimed): base7to10 of an address with a digit above 6 ends in
\* InvalidAddress and returns no number.
C7_PositionalRejects ==
    (op = "base7to10" /\ ~IsSpiralAddress(a)) => ret.err = "InvalidAddress"

\* C10 (as claimed): for valid multi-digit a, b the result of spiral_add has
\* no more decimal digits than the longer operand (a carry out of the top
\* position is dropped).
C10_NoLongerThanOperands ==
    (/\ op = "add" /\ mod = 0 /\ ret.err = "ok"
     /\ IsSpiralAddress(a) /\ IsSpiralAddress(b) /\ a >= 10 /\ b >= 10) =>
        NumDigits(ret.val) <= Max(NumDigits(a), NumDigits(b))

\* C10 (amended): for valid multi-digit a, b of at most n digits, what
\* spiral_add puts at the most-significant position n-1 is the whole value of
\* spiral_add(dig_a[n-1], dig_b[n-1]), carry digit included; the result
\* therefore has at most n+1 digits, and n+1 when that value has two.
C10_TopTokenKept ==
    (/\ op = "add" /\ mod = 0 /\ ret.err = "ok"
     /\ IsSpiralAddress(a) /\ IsSpiralAddress(b) /\ a >= 10 /\ b >= 10) =>
        LET n == Max(NumDigits(a), NumDigits(b))
            top == spiral_add(ret.dig[n], DigitAt(b, n - 1), 0).val
        IN  /\ ret.val \div Pow(10, n - 1) = top
            /\ NumDigits(ret.val) <= n + 1
            /\ top > 9 => NumDigits(ret.val) = n + 1

C10_Witness ==
    /\ op = "add" /\ mod = 0 /\ ret.err = "ok"
    /\ IsSpiralAddress(a) /\ IsSpiralAddress(b) /\ a >= 10 /\ b >= 10
    /\ ret.log.top2
    /\ NumDigits(ret.val) = Max(NumDigits(a), NumDigits(b)) + 1

\* The (sa1, sa2, sa3) of entry s (from 0) of the bispectrum, as the loop
\* order i, k (, r) gives it.
PlainTriple(s) ==
    LET T == <<0, 1, 10, 11, 12, 13, 14, 15, 16>>
        sa1 == T[(s \div 9) + 1]
        sa2 == T[(s % 9) + 1]
    IN  <<sa1, sa2, base10to7(base7to10(sa1) + base7to10(sa2))>>

RotTriple(s) ==
    LET T == <<0, 1, 10, 11, 12, 13, 14, 15, 16>>
        sa1 == T[((s \div 6) \div 9) + 1]
        sa2 == T[((s \div 6) % 9) + 1]
        rot == spiral_mult(sa2, s % 6, 0).val
    IN  <<sa1, sa2, base10to7(base7to10(sa1) + base7to10(rot))>>

Triple(s) == IF rotational THEN RotTriple(s) ELSE PlainTriple(s)

\* C6: bispectral_inv writes one entry per loop step at the consecutive
\* indices 0, 1, 2, ...; the vector has 81 (plain) or 486 (rotational)
\* slots, unwritten slots are still zero, and on return count is the length
\* and slot 9*i+k (plain) or 6*(9*i+k)+r (rotational) holds
\* invariant(spectrum, sa1, sa2, sa3) for the triple of that slot.
C6_BispectrumOrder ==
    pc \in {"loop", "returned", "IndexError"} =>
        /\ Len(bispectrum) = IF rotational THEN 486 ELSE 81
        /\ writes = [p \in 1..count |-> p - 1]
        /\ \A p \in (count + 1)..Len(bispectrum) : bispectrum[p] = Zero
        /\ pc = "returned" =>
             /\ count = Len(bispectrum)
             /\ \A p \in 1..count :
                  bispectrum[p] =
                    invariant(fft_oversampled, Triple(p - 1)[1],
                              Triple(p - 1)[2], Triple(p - 1)[3]).val

C6_Witness ==
    pc = "returned" /\ rotational /\ count = 486 /\ Len(writes) = 486

\* C8 (as claimed): no value is read for a footprint cell outside
\* [0,rows) x [0,cols) -- a negative row or column included -- and no
\* bispectrum is returned by a computation that needed such a cell.
C8_OutsideCellsRaise ==
    /\ ~wrapped
    /\ pc = "returned" => ~wrapped

\* C9 (as claimed): on a grid that is 1 on the hyperpel of address 0 and 0
\* elsewhere, every entry written whose (sa1, sa2, sa3) is not (0, 0, 0) is
\* exactly 0.
C9_SpikeGivesZeros ==
    (fft_oversampled \in {SpikeGrid(q[1], q[2]) : q \in SpikeSizes}) =>
        \A p \in 1..count :
            Triple(p - 1) # <<0, 0, 0>> => bispectrum[p] = Zero

\* On the 70 x 70 spike grid, where no footprint read comes back to a cell
\* of the hyperpel of address 0, the entries of C9 are all exactly 0 and the
\* entries of (0, 0, 0) are 6 (6 * 56^3 before the division by 56^3).
SpikeWithoutAliasing ==
    (fft_oversampled = SpikeGrid(70, 70)) =>
        \A p \in 1..count :
            bispectrum[p] = IF Triple(p - 1) = <<0, 0, 0>>
                            THEN <<6 * 56 * 56 * 56, 0>> ELSE Zero

\* The offset the design gives digit d at depth z: the base table at depth
\* 0, offset(d, z-1) + 2 * offset((d mod 6) + 1, z-1) above it.
RECURSIVE OffsetOf(_, _)
OffsetOf(d, z) ==
    IF z = 0
    THEN (0 :> <<0, 0>> @@ 1 :> <<0, 8>> @@ 2 :> <<-7, 4>> @@ 3 :> <<-7, -4>> @@
          4 :> <<0, -8>> @@ 5 :> <<7, -4>> @@ 6 :> <<7, 4>>)[d]
    ELSE <<OffsetOf(d, z - 1)[1] + 2 * OffsetOf((d % 6) + 1, z - 1)[1],
           OffsetOf(d, z - 1)[2] + 2 * OffsetOf((d % 6) + 1, z - 1)[2]>>

\* The sum of OffsetOf(digit, position) over the nonzero digits of n from
\* position p up.
RECURSIVE OffsetSum(_, _)
OffsetSum(n, p) ==
    IF n = 0 THEN <<0, 0>>
    ELSE IF n % 10 = 0 THEN OffsetSum(n \div 10, p + 1)
    ELSE <<OffsetOf(n % 10, p)[1] + OffsetSum(n \div 10, p + 1)[1],
           OffsetOf(n % 10, p)[2] + OffsetSum(n \div 10, p + 1)[2]>>

\* C11: for every valid address a, sa2hex(a) is the sum over the nonzero
\* digits d of a at position p (0 = least significant) of offset(d, p);
\* sa2hex(0) = (0,0), sa2hex(1) = (0,8), sa2hex(10) = (-14,16), and an
\* address d0 has the offset of d at depth 1 (its zero adds nothing).
C11_OffsetIsDigitSum ==
    (op = "sa2hex" /\ IsSpiralAddress(a)) =>
        /\ ret.err = "ok"
        /\ ret.val = OffsetSum(a, 0)
        /\ a = 0 => ret.val = <<0, 0>>
        /\ a = 1 => ret.val = <<0, 8>>
        /\ a = 10 => ret.val = <<-14, 16>>
        /\ (a >= 10 /\ a < 100 /\ a % 10 = 0) => ret.val = OffsetOf(a \div 10, 1)

C11_Witness ==
    /\ op = "sa2hex" /\ a = 26
    /\ ret.err = "ok"
    /\ ret.val = <<-14, 0>>

\* The entry the last pass of the loop body worked on: the one it wrote, or
\* the one it was computing when the exception was raised.
LastEntry == IF pc \in {"loop", "returned"} THEN count - 1 ELSE count

\* The outcomes of the spiral_mult calls of the pass for entry s: sa2 times
\* the rotation (rotational only), and sa1, sa2, sa3 times 1..6 in omegaf.
MultCalls(s) ==
    {spiral_mult(Triple(s)[q], m, 0) : q \in 1..3, m \in 1..6}
        \cup (IF rotational THEN {spiral_mult(Triple(s)[2], s % 6, 0)} ELSE {})

\* C12: in every pass of bispectral_inv, plain or rotational, each
\* spiral_mult call returns a number, no spiral_add under it gets a
\* two-digit token at its most-significant position, and no addition-table
\* lookup under it gives a two-digit token at all: no carry is ever produced.
C12_NoTopCarryInBispectrum ==
    (pc # "idle" /\ LastEntry >= 0) =>
        \A c \in MultCalls(LastEntry) :
            c.err = "ok" /\ ~c.log.top2 /\ ~c.log.two

C12_Witness ==
    /\ pc = "loop" /\ rotational /\ count > 0
    /\ Triple(count - 1)[3] >= 100
    /\ \E c \in MultCalls(count - 1) : c.val >= 100 /\ c.log.lookups > 3

\* C13: for all valid a, b of up to two digits, the centre of
\* spiral_add(a, b) is the componentwise sum of the centres of a and of b.
C13_AddIsVectorSum ==
    (/\ op = "add_sa2hex" /\ mod = 0
     /\ IsSpiralAddress(a) /\ IsSpiralAddress(b) /\ a < 100 /\ b < 100) =>
        /\ ret.err = "ok"
        /\ ret.val = <<sa2hex(a).hex[1] + sa2hex(b).hex[1],
                       sa2hex(a).hex[2] + sa2hex(b).hex[2]>>

C13_Witness ==
    /\ op = "add_sa2hex" /\ mod = 0
    /\ a = 11 /\ b = 11
    /\ ret.err = "ok"
    /\ ret.val = <<-28, 48>>

\* C14: for all valid a, b, spiral_add(a, b) and spiral_mult(a, b) return a
\* non-negative integer whose decimal digits are all in [0,6], and every
\* value stored into the digit array or passed to a nested spiral_add on the
\* way (digits, carries, partial products, running sums) has all its
\* decimal digits in [0,6] too.
C14_DigitsStayInRange ==
    (op \in {"add", "mult"} /\ mod = 0 /\ IsSpiralAddress(a) /\ IsSpiralAddress(b)) =>
        /\ ret.err = "ok"
        /\ ret.val >= 0
        /\ IsSpiralAddress(ret.val)
        /\ \A v \in ret.log.vals : v >= 0 /\ IsSpiralAddress(v)
        /\ \A p \in 1..Len(ret.dig) : ret.dig[p] >= 0 /\ IsSpiralAddress(ret.dig[p])

C14_Witness ==
    /\ op = "add" /\ mod = 0 /\ IsSpiralAddress(a) /\ IsSpiralAddress(b)
    /\ ret.err = "ok"
    /\ IsSpiralAddress(ret.val)
    /\ \E p \in 1..Len(ret.dig) : ret.dig[p] > 9
    /\ \E v \in ret.log.vals : v > 9

\* The set of cells of a sequence of cells.
CellSet(hp) == {hp[p] : p \in 1..Len(hp)}

\* C15: hyperpel_sa has exactly 56 pairwise distinct offsets, and for two
\* different valid addresses a, b of up to two digits the 56 cells
\* hyperpel_sa + sa2hex(a) that sa_value indexes for a and the 56 it indexes
\* for b, as integer (row, column) pairs before any wrap, have none in
\* common.
C15_HyperpelsDisjoint ==
    (/\ op = "sa_value" /\ IsSpiralAddress(a) /\ IsSpiralAddress(b)
     /\ a < 100 /\ b < 100) =>
        /\ ret.err = "ok"
        /\ Len(hyperpel_sa) = 56 /\ Cardinality(CellSet(hyperpel_sa)) = 56
        /\ Len(ret.val[1]) = 56 /\ Cardinality(CellSet(ret.val[1])) = 56
        /\ Len(ret.val[2]) = 56 /\ Cardinality(CellSet(ret.val[2])) = 56
        /\ a # b => CellSet(ret.val[1]) \cap CellSet(ret.val[2]) = {}

C15_Witness ==
    /\ op = "sa_value" /\ a = 1 /\ b = 64
    /\ ret.err = "ok"
    /\ <<3, 10>> \in CellSet(ret.val[1])
    /\ <<3, 11>> \in CellSet(ret.val[2])
    /\ CellSet(ret.val[1]) \cap CellSet(ret.val[2]) = {}

====
